---- MODULE Spec2Model ----
(***************************************************************************)
(* Gazelle's package aggregation (go/tools/gazelle/packages/package.go):   *)
(* PlatformStrings, Target and Package, the add* accumulators, Clean and   *)
(* Map, together with the file classification and build-constraint         *)
(* evaluation they call.                                                   *)
(*                                                                         *)
(* A Go string is a sequence of one-character strings, so that ordering    *)
(* (sort.Strings), suffix tests (strings.HasSuffix) and splitting          *)
(* (strings.Split, strings.Fields) are computed on the characters.         *)
(***************************************************************************)
EXTENDS Integers, Sequences, FiniteSets, TLC

VARIABLES
    ps,        \* the PlatformStrings under test
    pre,       \* ps as it was before the first Clean
    once,      \* ps as it was after the first Clean
    n,         \* how many times Clean has run on ps
    pkg,       \* the Package being filled
    pkgCgo,    \* addFile's cgo argument: a .go file of the package uses cgo
    cfg,       \* the configuration (generic tags and platform table)
    added,     \* the files addFile was called with, in call order
    last,      \* the last addFile call: its file, the Package before, its error
    phase,     \* "adding" while files are added, "clean" once normalized
    mapIn,     \* the PlatformStrings Map is called on
    mapF,      \* the transform given to Map
    mapRes,    \* what Map returned
    tagLine,   \* the tag line given to checkTags
    satisfied, \* the satisfied tags given to checkTags
    verdict,   \* what checkTags returned: "none" before the call
    nameIn,    \* the tokens and the extension a file name is made of
    fileName,  \* the file name given to fileNameInfo
    nameInfo,  \* what fileNameInfo returned
    valIn,     \* the PlatformStrings given to newValue, whole or its map
    valCall,   \* the call of newValue: the kind of its value and MapKeys' order
    valOut     \* the expression newValue returned

psVars == <<ps, pre, once, n>>
pkgVars == <<pkg, pkgCgo, cfg, added, last, phase>>

mapVars == <<mapIn, mapF, mapRes>>
tagVars == <<tagLine, satisfied, verdict>>
nameVars == <<nameIn, fileName, nameInfo>>
valVars == <<valIn, valCall, valOut>>

vars == <<psVars, pkgVars, mapVars, tagVars, nameVars, valVars>>

(***************************************************************************)
(* Bounds of the model.                                                    *)
(***************************************************************************)
MaxLen == 3        \* longest Generic list / per-platform list enumerated
MaxCleans == 2     \* Clean is run at most this many times on one value
MaxFiles == 2      \* most files added to one Package
MaxValLen == 1 \* most strings in a list given to newValue
MaxNameTokens == 4 \* most tokens the stem of a file name is made of
MaxLinePieces == 5 \* most pieces a tag line is made of
MaxArgs == 1       \* most strings (or options) passed to one add* call

(***************************************************************************)
(* Strings.                                                                *)
(***************************************************************************)
\* The characters the model uses, in ascending byte order.
Alphabet ==
    <<" ", "!", "+", ",", "-", ".", "/", "0", "1", "2", "3", "4", "5", "6",
      "7", "8", "9", ":", "F", "L", "O", "S", "_", "a", "b", "c", "d", "e",
      "f", "g", "h", "i", "l", "m", "n", "o", "p", "r", "s", "t", "u", "w",
      "x", "y">>

Ord(ch) == CHOOSE i \in DOMAIN Alphabet : Alphabet[i] = ch

Range(s) == {s[i] : i \in DOMAIN s}

\* Go's s < t on strings: bytewise lexicographic, a proper prefix is smaller.
RECURSIVE StrLess(_, _)
StrLess(s, t) ==
    IF t = <<>> THEN FALSE
    ELSE IF s = <<>> THEN TRUE
    ELSE IF Head(s) = Head(t) THEN StrLess(Tail(s), Tail(t))
    ELSE Ord(Head(s)) < Ord(Head(t))

HasPrefix(s, p) == Len(s) >= Len(p) /\ SubSeq(s, 1, Len(p)) = p

HasSuffix(s, x) ==
    Len(s) >= Len(x) /\ SubSeq(s, Len(s) - Len(x) + 1, Len(s)) = x

\* sort.Strings: the ascending arrangement of the list (equal strings are
\* indistinguishable, so the result does not depend on the algorithm).
RECURSIVE InsertSorted(_, _)
InsertSorted(s, sorted) ==
    IF sorted = <<>> THEN <<s>>
    ELSE IF StrLess(Head(sorted), s)
         THEN <<Head(sorted)>> \o InsertSorted(s, Tail(sorted))
         ELSE <<s>> \o sorted

RECURSIVE SortStrings(_)
SortStrings(ss) ==
    IF ss = <<>> THEN <<>>
    ELSE InsertSorted(Head(ss), SortStrings(Tail(ss)))

(***************************************************************************)
(* Build constraints (fileinfo.go): checkTags, checkConstraints and        *)
(* hasConstraints, as the specification and TestCheckTags /                *)
(* TestCheckConstraints describe them.                                     *)
(***************************************************************************)
Digits == {"0", "1", "2", "3", "4", "5", "6", "7", "8", "9"}

IndexOf(s, ch) ==
    IF ch \in Range(s) THEN CHOOSE i \in DOMAIN s :
                                /\ s[i] = ch
                                /\ \A j \in 1..(i - 1) : s[j] # ch
    ELSE 0

\* strings.Split(s, sep) for a one-character sep: empty pieces are kept.
RECURSIVE Split(_, _)
Split(s, sep) ==
    IF IndexOf(s, sep) = 0 THEN <<s>>
    ELSE <<SubSeq(s, 1, IndexOf(s, sep) - 1)>>
             \o Split(SubSeq(s, IndexOf(s, sep) + 1, Len(s)), sep)

\* strings.Fields(s): the maximal runs of non-space characters.
Fields(s) == SelectSeq(Split(s, " "), LAMBDA piece : piece # <<>>)

\* The reserved minimum-version pattern goN.M.
isReleaseTag(tag) ==
    /\ HasPrefix(tag, <<"g", "o">>)
    /\ LET parts == Split(SubSeq(tag, 3, Len(tag)), ".")
       IN  /\ Len(parts) = 2
           /\ \A i \in 1..2 : parts[i] # <<>> /\ Range(parts[i]) \subseteq Digits

\* One comma-separated factor of an AND-term.
factorHolds(factor, tags) ==
    LET not == HasPrefix(factor, <<"!">>)
        tag == IF not THEN Tail(factor) ELSE factor
    IN  IF isReleaseTag(tag) THEN TRUE
        ELSE IF not THEN tag \notin tags
        ELSE tag \in tags

groupHolds(group, tags) ==
    \A i \in DOMAIN Split(group, ",") : factorHolds(Split(group, ",")[i], tags)

hasDoubleNegation(line) ==
    \E i \in DOMAIN Fields(line) :
        \E j \in DOMAIN Split(Fields(line)[i], ",") :
            HasPrefix(Split(Fields(line)[i], ",")[j], <<"!", "!">>)

\* checkTags that returns the value of the first term: it leaves the loop
\* over the terms after one round.
checkTagsFirstTerm(line, tags) ==
    IF hasDoubleNegation(line) THEN FALSE
    ELSE Len(Fields(line)) > 0 /\ groupHolds(Fields(line)[1], tags)

\* checkTags without the veto of a doubly negated factor: such a factor is
\* read as a negation of the tag "!name".
checkTagsNoVeto(line, tags) ==
    \E i \in DOMAIN Fields(line) : groupHolds(Fields(line)[i], tags)

checkTags(line, tags) ==
    IF hasDoubleNegation(line) THEN FALSE
    ELSE \E i \in DOMAIN Fields(line) : groupHolds(Fields(line)[i], tags)

hasConstraints(info) ==
    info.goos # <<>> \/ info.goarch # <<>> \/ Len(info.tags) > 0

checkConstraints(info, tags) ==
    /\ info.goos = <<>> \/ info.goos \in tags
    /\ info.goarch = <<>> \/ info.goarch \in tags
    /\ \A i \in DOMAIN info.tags : checkTags(info.tags[i], tags)

(***************************************************************************)
(* File classification (fileinfo.go): fileNameInfo, as the specification   *)
(* and TestFileNameInfo describe it.                                       *)
(***************************************************************************)
KnownOS == {<<"d", "a", "r", "w", "i", "n">>, <<"l", "i", "n", "u", "x">>, <<"w", "i", "n", "d", "o", "w", "s">>}
KnownArch == {<<"3", "8", "6">>, <<"a", "m", "d", "6", "4">>, <<"a", "r", "m">>}

LastIndexOf(s, ch) ==
    IF ch \in Range(s) THEN CHOOSE i \in DOMAIN s :
                                /\ s[i] = ch
                                /\ \A j \in (i + 1)..Len(s) : s[j] # ch
    ELSE 0

\* path.Ext: the suffix starting at the last dot, or "" without a dot.
Ext(name) ==
    IF LastIndexOf(name, ".") = 0 THEN <<>>
    ELSE SubSeq(name, LastIndexOf(name, "."), Len(name))

Stem(name) == SubSeq(name, 1, Len(name) - Len(Ext(name)))

categoryOf(ext) ==
    CASE ext = <<".", "g", "o">> -> "goExt"
      [] ext \in {<<".", "c">>, <<".", "c", "c">>, <<".", "c", "x", "x">>, <<".", "c", "p", "p">>} -> "cExt"
      [] ext \in {<<".", "h">>, <<".", "h", "h">>, <<".", "h", "p", "p">>, <<".", "h", "x", "x">>} -> "hExt"
      [] ext = <<".", "s">> -> "sExt"
      [] ext = <<".", "S">> -> "csExt"
      [] ext = <<".", "p", "r", "o", "t", "o">> -> "protoExt"
      [] ext \in {<<".", "m">>, <<".", "f">>, <<".", "F">>, <<".", "f", "o", "r">>, <<".", "f", "9", "0">>, <<".", "s", "w", "i", "g">>, <<".", "s", "w", "i", "g", "c", "x", "x">>, <<".", "s", "y", "s", "o">>}
             -> "unsupportedExt"
      [] OTHER -> "ignoredExt"

\* fileNameInfo that takes a stem that is an OS or architecture name alone
\* for a constraint: the length tests of the switch are one too low.
fileNameInfoBareToken(name) ==
    LET ext == Ext(name)
        all == Split(Stem(name), "_")
        hasTest == Len(all) >= 2 /\ all[Len(all)] = <<"t", "e", "s", "t">>
        l == IF hasTest THEN SubSeq(all, 1, Len(all) - 1) ELSE all
        k == Len(l)
        osArch == k >= 2 /\ l[k - 1] \in KnownOS /\ l[k] \in KnownArch
        osOnly == ~osArch /\ k >= 1 /\ l[k] \in KnownOS
        archOnly == ~osArch /\ ~osOnly /\ k >= 1 /\ l[k] \in KnownArch
    IN  [name |-> name,
         path |-> name,
         ext |-> ext,
         category |-> categoryOf(ext),
         isTest |-> hasTest /\ ext = <<".", "g", "o">>,
         goos |-> IF osArch THEN l[k - 1] ELSE IF osOnly THEN l[k] ELSE <<>>,
         goarch |-> IF osArch \/ archOnly THEN l[k] ELSE <<>>]

\* fileNameInfo that marks a test by the stem alone, whatever the extension.
fileNameInfoTestAnyExt(name) ==
    LET ext == Ext(name)
        all == Split(Stem(name), "_")
        hasTest == Len(all) >= 2 /\ all[Len(all)] = <<"t", "e", "s", "t">>
        l == IF hasTest THEN SubSeq(all, 1, Len(all) - 1) ELSE all
        k == Len(l)
        osArch == k >= 3 /\ l[k - 1] \in KnownOS /\ l[k] \in KnownArch
        osOnly == ~osArch /\ k >= 2 /\ l[k] \in KnownOS
        archOnly == ~osArch /\ ~osOnly /\ k >= 2 /\ l[k] \in KnownArch
    IN  [name |-> name,
         path |-> name,
         ext |-> ext,
         category |-> categoryOf(ext),
         isTest |-> hasTest,
         goos |-> IF osArch THEN l[k - 1] ELSE IF osOnly THEN l[k] ELSE <<>>,
         goarch |-> IF osArch \/ archOnly THEN l[k] ELSE <<>>]

\* The fields of fileInfo that the file's name decides.
fileNameInfo(name) ==
    LET ext == Ext(name)
        all == Split(Stem(name), "_")
        hasTest == Len(all) >= 2 /\ all[Len(all)] = <<"t", "e", "s", "t">>
        l == IF hasTest THEN SubSeq(all, 1, Len(all) - 1) ELSE all
        k == Len(l)
        osArch == k >= 3 /\ l[k - 1] \in KnownOS /\ l[k] \in KnownArch
        osOnly == ~osArch /\ k >= 2 /\ l[k] \in KnownOS
        archOnly == ~osArch /\ ~osOnly /\ k >= 2 /\ l[k] \in KnownArch
    IN  [name |-> name,
         path |-> name,
         ext |-> ext,
         category |-> categoryOf(ext),
         isTest |-> hasTest /\ ext = <<".", "g", "o">>,
         goos |-> IF osArch THEN l[k - 1] ELSE IF osOnly THEN l[k] ELSE <<>>,
         goarch |-> IF osArch \/ archOnly THEN l[k] ELSE <<>>]

(***************************************************************************)
(* PlatformStrings {Generic []string; Platform map[string][]string}.       *)
(* A Go map is a record [isNil, m]: a nil map and an empty map both have   *)
(* no entries and differ in isNil.                                         *)
(***************************************************************************)
PlatformNames == {"darwin_amd64", "linux_amd64"}

EmptyEntries == [name \in {} |-> <<>>]
NilMap == [isNil |-> TRUE, m |-> EmptyEntries]
EmptyMap == [isNil |-> FALSE, m |-> EmptyEntries]

\* The zero value of PlatformStrings.
ZeroPS == [Generic |-> <<>>, Platform |-> NilMap]

\* ps.Platform[name], which is nil (no strings) for a missing key.
Lookup(platform, name) ==
    IF name \in DOMAIN platform.m THEN platform.m[name] ELSE <<>>

\* if ps.Platform == nil { make }; ps.Platform[name] = append(ps.Platform[name], ss...)
AppendEntry(platform, name, ss) ==
    [isNil |-> FALSE,
     m |-> [k \in DOMAIN platform.m \cup {name} |->
               IF k = name THEN Lookup(platform, name) \o ss
               ELSE platform.m[k]]]

\* remove with the test of the loop inverted: it keeps the strings of the set.
removeInverted(ss, genSet) == SelectSeq(ss, LAMBDA s : s \in genSet)

remove(ss, genSet) == SelectSeq(ss, LAMBDA s : s \notin genSet)

RECURSIVE uniqLoop(_, _, _)
uniqLoop(rest, result, prev) ==
    IF rest = <<>> THEN result
    ELSE IF Head(rest) # prev
         THEN uniqLoop(Tail(rest), Append(result, Head(rest)), Head(rest))
         ELSE uniqLoop(Tail(rest), result, prev)

uniq(ss) ==
    IF Len(ss) <= 1 THEN ss
    ELSE uniqLoop(Tail(ss), <<ss[1]>>, ss[1])

\* The loop of Clean over ps.Platform: every entry is handled on its own, so
\* the iteration order of the map does not show in the result.
CleanEntries(m, genSet) ==
    LET kept == {k \in DOMAIN m : Len(remove(m[k], genSet)) # 0}
    IN  [k \in kept |-> uniq(SortStrings(remove(m[k], genSet)))]

\* Clean without sort.Strings on Generic.
CleanNoGenericSort(p) ==
    LET gen == uniq(p.Generic)
        genSet == Range(gen)
        m == CleanEntries(p.Platform.m, genSet)
    IN  IF p.Platform.isNil THEN [Generic |-> gen, Platform |-> p.Platform]
        ELSE [Generic |-> gen,
              Platform |-> IF DOMAIN m = {} THEN NilMap
                           ELSE [isNil |-> FALSE, m |-> m]]

\* Clean with uniq called before sort.Strings, on Generic and on each entry.
CleanUniqFirst(p) ==
    LET gen == SortStrings(uniq(p.Generic))
        genSet == Range(gen)
        kept == {k \in DOMAIN p.Platform.m :
                     Len(remove(p.Platform.m[k], genSet)) # 0}
        m == [k \in kept |-> SortStrings(uniq(remove(p.Platform.m[k], genSet)))]
    IN  IF p.Platform.isNil THEN [Generic |-> gen, Platform |-> p.Platform]
        ELSE [Generic |-> gen,
              Platform |-> IF DOMAIN m = {} THEN NilMap
                           ELSE [isNil |-> FALSE, m |-> m]]

\* Clean without the pruning of emptied entries and of the emptied map.
CleanNoPrune(p) ==
    LET gen == uniq(SortStrings(p.Generic))
        genSet == Range(gen)
        m == [k \in DOMAIN p.Platform.m |->
                 uniq(SortStrings(remove(p.Platform.m[k], genSet)))]
    IN  [Generic |-> gen,
         Platform |-> IF p.Platform.isNil THEN p.Platform
                      ELSE [isNil |-> FALSE, m |-> m]]

\* Clean without sort.Strings on the per-platform lists.
CleanNoPlatformSort(p) ==
    LET gen == uniq(SortStrings(p.Generic))
        genSet == Range(gen)
        kept == {k \in DOMAIN p.Platform.m :
                     Len(remove(p.Platform.m[k], genSet)) # 0}
        m == [k \in kept |-> uniq(remove(p.Platform.m[k], genSet))]
    IN  IF p.Platform.isNil THEN [Generic |-> gen, Platform |-> p.Platform]
        ELSE [Generic |-> gen,
              Platform |-> IF DOMAIN m = {} THEN NilMap
                           ELSE [isNil |-> FALSE, m |-> m]]

Clean(p) ==
    LET gen == uniq(SortStrings(p.Generic))
        genSet == Range(gen)
        m == CleanEntries(p.Platform.m, genSet)
    IN  IF p.Platform.isNil THEN [Generic |-> gen, Platform |-> p.Platform]
        ELSE [Generic |-> gen,
              Platform |-> IF DOMAIN m = {} THEN NilMap
                           ELSE [isNil |-> FALSE, m |-> m]]

(***************************************************************************)
(* PlatformStrings.Map.  The transform f maps a string to [ok, r]: r is    *)
(* the result when ok, and the call fails with ErrorFor(s) otherwise.      *)
(***************************************************************************)
ErrorFor(s) == [failed |-> s]

\* One loop of Map over a list: the results of the successful calls and the
\* errors of the failed ones, both in list order.
MapList(ss, f) ==
    LET good == SelectSeq(ss, LAMBDA s : f[s].ok)
        bad == SelectSeq(ss, LAMBDA s : ~f[s].ok)
    IN  [out |-> [i \in DOMAIN good |-> f[good[i]].r],
         errs |-> [i \in DOMAIN bad |-> ErrorFor(bad[i])]]

RECURSIVE MapErrors(_, _, _)
\* The errors of the per-platform lists, in the order the map is iterated.
MapErrors(m, f, order) ==
    IF order = <<>> THEN <<>>
    ELSE MapList(m[Head(order)], f).errs \o MapErrors(m, f, Tail(order))

\* One loop of Map that leaves the list at its first failed call.
RECURSIVE MapListBreak(_, _)
MapListBreak(ss, f) ==
    IF ss = <<>> THEN [out |-> <<>>, errs |-> <<>>]
    ELSE IF ~f[Head(ss)].ok THEN [out |-> <<>>, errs |-> <<ErrorFor(Head(ss))>>]
    ELSE [out |-> <<f[Head(ss)].r>> \o MapListBreak(Tail(ss), f).out,
          errs |-> MapListBreak(Tail(ss), f).errs]

RECURSIVE MapErrorsBreak(_, _, _)
MapErrorsBreak(m, f, order) ==
    IF order = <<>> THEN <<>>
    ELSE MapListBreak(m[Head(order)], f).errs \o MapErrorsBreak(m, f, Tail(order))

\* Map with break in place of the else branch of both loops.
MapBreak(p, f, order) ==
    [result |->
         [Generic |-> MapListBreak(p.Generic, f).out,
          Platform |->
              IF p.Platform.isNil THEN NilMap
              ELSE [isNil |-> FALSE,
                    m |-> [k \in DOMAIN p.Platform.m |->
                              MapListBreak(p.Platform.m[k], f).out]]],
     errors |-> MapListBreak(p.Generic, f).errs
                    \o MapErrorsBreak(p.Platform.m, f, order)]

\* order lists the keys of p.Platform as the range loop visits them; Go
\* leaves that order open.
Map(p, f, order) ==
    [result |->
         [Generic |-> MapList(p.Generic, f).out,
          Platform |->
              IF p.Platform.isNil THEN NilMap
              ELSE [isNil |-> FALSE,
                    m |-> [k \in DOMAIN p.Platform.m |->
                              MapList(p.Platform.m[k], f).out]]],
     errors |-> MapList(p.Generic, f).errs \o MapErrors(p.Platform.m, f, order)]

(***************************************************************************)
(* newValue (rules): the conversion of a Go value into a BUILD file        *)
(* expression.  An expression of the build package is a record tagged by   *)
(* its Go type.  A map keeps its keys as strings; rkeys is the slice       *)
(* reflect's MapKeys returns, whose order Go leaves open.                  *)
(***************************************************************************)
LiteralExpr(token) == [type |-> "LiteralExpr", Token |-> token]

StringExpr(value) == [type |-> "StringExpr", Value |-> value]

ListExpr(list, multi) ==
    [type |-> "ListExpr", List |-> list, ForceMultiLine |-> multi]

KeyValueExpr(key, value) == [type |-> "KeyValueExpr", Key |-> key, Value |-> value]

DictExpr(list) == [type |-> "DictExpr", List |-> list, ForceMultiLine |-> TRUE]

CallExpr(x, list) == [type |-> "CallExpr", X |-> x, List |-> list]

BinaryExpr(x, op, y) == [type |-> "BinaryExpr", X |-> x, Op |-> op, Y |-> y]

\* l.ForceMultiLine = true when v is a *bf.ListExpr.
ForceIfList(v) ==
    IF v.type = "ListExpr" THEN [v EXCEPT !.ForceMultiLine = TRUE] ELSE v

\* case reflect.String.
newValueString(s) == StringExpr(s)

\* case reflect.Slice of strings.
newValueSlice(ss) ==
    ListExpr([i \in DOMAIN ss |-> newValueString(ss[i])], FALSE)

DefaultCase == KeyValueExpr(StringExpr(<<"/", "/", "c", "o", "n", "d", "i", "t", "i", "o", "n", "s", ":", "d", "e", "f", "a", "u", "l", "t">>), ListExpr(<<>>, FALSE))

\* The select(...) call around the entries args.
Select(args) == CallExpr(LiteralExpr(<<"s", "e", "l", "e", "c", "t">>), <<DictExpr(args)>>)

\* case reflect.Map without sort.Sort: the entries come in the order of rkeys.
newValueMapUnsorted(m, rkeys) ==
    Select([i \in DOMAIN rkeys |->
                KeyValueExpr(StringExpr(rkeys[i]),
                             ForceIfList(newValueSlice(m[rkeys[i]])))]
               \o <<DefaultCase>>)

\* case reflect.Map, for a map from strings to string slices.
newValueMap(m, rkeys) ==
    LET sorted == SortStrings(rkeys)
    IN  Select([i \in DOMAIN sorted |->
                    KeyValueExpr(StringExpr(sorted[i]),
                                 ForceIfList(newValueSlice(m[sorted[i]])))]
                   \o <<DefaultCase>>)

\* case packages.PlatformStrings that builds the binary expression whenever
\* Platform has entries, without the test of len(val.Generic).
newValuePlatformStringsNoGenericTest(p, rkeys) ==
    IF DOMAIN p.Platform.m = {} THEN newValueSlice(p.Generic)
    ELSE BinaryExpr(ForceIfList(newValueSlice(p.Generic)), "+",
                    newValueMap(p.Platform.m, rkeys))

\* case packages.PlatformStrings.
newValuePlatformStrings(p, rkeys) ==
    LET gen == newValueSlice(p.Generic)
        sel == newValueMap(p.Platform.m, rkeys)
    IN  IF DOMAIN p.Platform.m = {} THEN gen
        ELSE IF Len(p.Generic) = 0 THEN sel
        ELSE BinaryExpr(ForceIfList(gen), "+", sel)

\* newValue on a value tagged with its kind; a kind without a case panics.
newValue(val, rkeys) ==
    CASE val.kind = "String" -> newValueString(val.v)
      [] val.kind = "Slice" -> newValueSlice(val.v)
      [] val.kind = "Map" -> newValueMap(val.v.m, rkeys)
      [] val.kind = "PlatformStrings" -> newValuePlatformStrings(val.v, rkeys)
      [] OTHER -> [type |-> "panic"]

(***************************************************************************)
(* The accumulators of PlatformStrings.  taggedOpts is [tags, opts]; a     *)
(* PlatformTags table maps a platform name to its set of satisfied tags.   *)
(***************************************************************************)
addGenericStrings(p, ss) == [p EXCEPT !.Generic = @ \o ss]

\* for name, tags := range platforms { if checkTags(t.tags, tags) { append } }:
\* each platform gets the option appended to its own entry, so the iteration
\* order of the table does not show in the result.
AppendToAll(platform, names, ss) ==
    IF names = {} THEN platform
    ELSE [isNil |-> FALSE,
          m |-> [k \in DOMAIN platform.m \cup names |->
                    IF k \in names THEN Lookup(platform, k) \o ss
                    ELSE platform.m[k]]]

\* addGenericOpts without the checkTags test: a tagged option goes to every
\* platform of the table.
RECURSIVE addGenericOptsUntested(_, _, _)
addGenericOptsUntested(p, platforms, opts) ==
    IF opts = <<>> THEN p
    ELSE LET t == Head(opts)
             q == IF t.tags = <<>>
                  THEN [p EXCEPT !.Generic = Append(@, t.opts)]
                  ELSE [p EXCEPT !.Platform = AppendToAll(@, DOMAIN platforms, <<t.opts>>)]
         IN  addGenericOptsUntested(q, platforms, Tail(opts))

RECURSIVE addGenericOpts(_, _, _)
addGenericOpts(p, platforms, opts) ==
    IF opts = <<>> THEN p
    ELSE LET t == Head(opts)
             names == {name \in DOMAIN platforms : checkTags(t.tags, platforms[name])}
             q == IF t.tags = <<>>
                  THEN [p EXCEPT !.Generic = Append(@, t.opts)]
                  ELSE [p EXCEPT !.Platform = AppendToAll(@, names, <<t.opts>>)]
         IN  addGenericOpts(q, platforms, Tail(opts))

addPlatformStrings(p, name, ss) ==
    [p EXCEPT !.Platform = AppendEntry(@, name, ss)]

RECURSIVE addTaggedOpts(_, _, _, _)
addTaggedOpts(p, name, opts, tags) ==
    IF opts = <<>> THEN p
    ELSE LET t == Head(opts)
             q == IF t.tags = <<>> \/ checkTags(t.tags, tags)
                  THEN [p EXCEPT !.Platform = AppendEntry(@, name, <<t.opts>>)]
                  ELSE p
         IN  addTaggedOpts(q, name, Tail(opts), tags)

(***************************************************************************)
(* Configuration (config.Config): the generic tags and the platform table. *)
(* Every platform satisfies its OS, its architecture and the generic tags. *)
(***************************************************************************)
PlatformOSArch ==
    [name \in PlatformNames |->
        IF name = "linux_amd64" THEN {<<"l", "i", "n", "u", "x">>, <<"a", "m", "d", "6", "4">>}
        ELSE {<<"d", "a", "r", "w", "i", "n">>, <<"a", "m", "d", "6", "4">>}]

MakeConfig(genericTags) ==
    [GenericTags |-> genericTags,
     Platforms |-> [name \in PlatformNames |-> PlatformOSArch[name] \cup genericTags]]

Configs == {MakeConfig({<<"g", "c">>}), MakeConfig({<<"g", "c">>, <<"f", "o", "o">>})}

DefaultConfig == MakeConfig({<<"g", "c">>})

(***************************************************************************)
(* Target and Package.                                                     *)
(***************************************************************************)
ZeroTarget ==
    [Sources |-> ZeroPS, Imports |-> ZeroPS, COpts |-> ZeroPS, CLinkOpts |-> ZeroPS]

TargetNames == {"Library", "CgoLibrary", "Binary", "Test", "XTest"}

ZeroPackage ==
    [Library |-> ZeroTarget, CgoLibrary |-> ZeroTarget, Binary |-> ZeroTarget,
     Test |-> ZeroTarget, XTest |-> ZeroTarget,
     Protos |-> <<>>, HasPbGo |-> FALSE]

\* The body of the loop of Target.addFile for one platform of the table.
addFileForPlatform(t, c, info, name) ==
    IF checkConstraints(info, c.Platforms[name])
    THEN [Sources |-> addPlatformStrings(t.Sources, name, <<info.name>>),
          Imports |-> addPlatformStrings(t.Imports, name, info.imports),
          COpts |-> addTaggedOpts(t.COpts, name, info.copts, c.Platforms[name]),
          CLinkOpts |-> addTaggedOpts(t.CLinkOpts, name, info.clinkopts,
                                      c.Platforms[name])]
    ELSE t

\* for name, tags := range c.Platforms: a platform's turn touches only its
\* own entries, so the iteration order of the table does not show.
RECURSIVE addFileForPlatforms(_, _, _, _)
addFileForPlatforms(t, c, info, names) ==
    IF names = {} THEN t
    ELSE LET name == CHOOSE x \in names : TRUE
         IN  addFileForPlatforms(addFileForPlatform(t, c, info, name), c, info,
                                 names \ {name})

addFileGeneric(t, c, info) ==
    [Sources |-> addGenericStrings(t.Sources, <<info.name>>),
     Imports |-> addGenericStrings(t.Imports, info.imports),
     COpts |-> addGenericOpts(t.COpts, c.Platforms, info.copts),
     CLinkOpts |-> addGenericOpts(t.CLinkOpts, c.Platforms, info.clinkopts)]

\* Target.addFile that takes the generic branch only for a file without
\* constraints.
TargetAddFileNoGenericTags(t, c, info) ==
    IF ~hasConstraints(info)
    THEN addFileGeneric(t, c, info)
    ELSE addFileForPlatforms(t, c, info, DOMAIN c.Platforms)

TargetAddFile(t, c, info) ==
    IF ~hasConstraints(info) \/ checkConstraints(info, c.GenericTags)
    THEN addFileGeneric(t, c, info)
    ELSE addFileForPlatforms(t, c, info, DOMAIN c.Platforms)

NilError == [isNil |-> TRUE, path |-> <<>>, msg |-> ""]

CgoInTestError(info) ==
    [isNil |-> FALSE, path |-> info.path, msg |-> "use of cgo in test not supported"]

Returns(p, err) == [pkg |-> p, err |-> err]

\* The statements after the switch with HasPbGo assigned from the suffix test
\* instead of set.
AfterSwitchAssign(p, info) ==
    Returns([p EXCEPT !.HasPbGo = HasSuffix(info.name, <<".", "p", "b", ".", "g", "o">>)], NilError)

\* The statements of Package.addFile after the switch.
AfterSwitch(p, info) ==
    Returns(IF HasSuffix(info.name, <<".", "p", "b", ".", "g", "o">>) THEN [p EXCEPT !.HasPbGo = TRUE] ELSE p,
            NilError)

\* The test cases with the file added before the cgo check.
addTestFileThenCheck(p, c, info, target) ==
    IF info.isCgo
    THEN Returns([p EXCEPT ![target] = TargetAddFile(@, c, info)], CgoInTestError(info))
    ELSE AfterSwitch([p EXCEPT ![target] = TargetAddFile(@, c, info)], info)

\* The cases info.isXTest and info.isTest of the switch.
addTestFile(p, c, info, target) ==
    IF info.isCgo THEN Returns(p, CgoInTestError(info))
    ELSE AfterSwitch([p EXCEPT ![target] = TargetAddFile(@, c, info)], info)

\* Package.addFile with the library case ahead of the cgo library case.
PackageAddFileLibraryFirst(p, c, info, cgo) ==
    IF info.category = "ignoredExt" \/ info.category = "unsupportedExt"
    THEN Returns(p, NilError)
    ELSE IF info.isXTest THEN addTestFile(p, c, info, "XTest")
    ELSE IF info.isTest THEN addTestFile(p, c, info, "Test")
    ELSE IF info.category = "goExt" \/ info.category = "sExt" \/ info.category = "hExt"
    THEN AfterSwitch([p EXCEPT !.Library = TargetAddFile(@, c, info)], info)
    ELSE IF info.isCgo \/ (cgo /\ (info.category = "cExt" \/ info.category = "hExt"
                                       \/ info.category = "csExt"))
    THEN AfterSwitch([p EXCEPT !.CgoLibrary = TargetAddFile(@, c, info)], info)
    ELSE IF info.category = "protoExt"
    THEN AfterSwitch([p EXCEPT !.Protos = Append(@, info.name)], info)
    ELSE AfterSwitch(p, info)

PackageAddFile(p, c, info, cgo) ==
    IF info.category = "ignoredExt" \/ info.category = "unsupportedExt"
    THEN Returns(p, NilError)
    ELSE IF info.isXTest THEN addTestFile(p, c, info, "XTest")
    ELSE IF info.isTest THEN addTestFile(p, c, info, "Test")
    ELSE IF info.isCgo \/ (cgo /\ (info.category = "cExt" \/ info.category = "hExt"
                                       \/ info.category = "csExt"))
    THEN AfterSwitch([p EXCEPT !.CgoLibrary = TargetAddFile(@, c, info)], info)
    ELSE IF info.category = "goExt" \/ info.category = "sExt" \/ info.category = "hExt"
    THEN AfterSwitch([p EXCEPT !.Library = TargetAddFile(@, c, info)], info)
    ELSE IF info.category = "protoExt"
    THEN AfterSwitch([p EXCEPT !.Protos = Append(@, info.name)], info)
    ELSE AfterSwitch(p, info)

CleanTarget(t) ==
    [Sources |-> Clean(t.Sources), Imports |-> Clean(t.Imports),
     COpts |-> Clean(t.COpts), CLinkOpts |-> Clean(t.CLinkOpts)]

\* Normalization: Clean on every PlatformStrings of every target.
CleanPackage(p) ==
    [Library |-> CleanTarget(p.Library), CgoLibrary |-> CleanTarget(p.CgoLibrary),
     Binary |-> CleanTarget(p.Binary), Test |-> CleanTarget(p.Test),
     XTest |-> CleanTarget(p.XTest),
     Protos |-> p.Protos, HasPbGo |-> p.HasPbGo]

(***************************************************************************)
(* File records.  What the name decides comes from fileNameInfo; the rest  *)
(* (package clause, imports, tag lines, #cgo options) from the content.    *)
(***************************************************************************)
PlainContent ==
    [xtest |-> FALSE, cgo |-> FALSE, imports |-> <<>>, tags |-> <<>>,
     copts |-> <<>>, clinkopts |-> <<>>]

\* goFileInfo for a .go file and otherFileInfo for any other file.
MakeFileInfo(name, content) ==
    LET ni == fileNameInfo(name)
        isGo == ni.category = "goExt"
    IN  [name |-> ni.name, path |-> ni.path, ext |-> ni.ext,
         category |-> ni.category, isTest |-> ni.isTest,
         goos |-> ni.goos, goarch |-> ni.goarch,
         isXTest |-> isGo /\ ni.isTest /\ content.xtest,
         isCgo |-> isGo /\ content.cgo,
         imports |-> IF isGo THEN content.imports ELSE <<>>,
         tags |-> content.tags,
         copts |-> IF isGo /\ content.cgo THEN content.copts ELSE <<>>,
         clinkopts |-> IF isGo /\ content.cgo THEN content.clinkopts ELSE <<>>]

CgoContent ==
    [PlainContent EXCEPT !.cgo = TRUE,
                         !.imports = <<<<"a", "b">>>>,
                         !.copts = <<[tags |-> <<>>, opts |-> <<"-", "O">>],
                                     [tags |-> <<"l", "i", "n", "u", "x">>, opts |-> <<"-", "L">>]>>,
                         !.clinkopts = <<[tags |-> <<"!", "l", "i", "n", "u", "x">>, opts |-> <<"-", "l">>]>>]

Files ==
    {MakeFileInfo(<<"a", ".", "g", "o">>, [PlainContent EXCEPT !.imports = <<<<"b">>, <<"a", "b">>>>]),
     MakeFileInfo(<<"a", ".", "p", "b", ".", "g", "o">>, [PlainContent EXCEPT !.imports = <<<<"b">>>>]),
     MakeFileInfo(<<"c", ".", "g", "o">>, CgoContent),
     MakeFileInfo(<<"c", ".", "p", "b", ".", "g", "o">>, [PlainContent EXCEPT !.cgo = TRUE]),
     MakeFileInfo(<<"a", "_", "l", "i", "n", "u", "x", ".", "g", "o">>, [PlainContent EXCEPT !.imports = <<<<"b">>>>]),
     MakeFileInfo(<<"n", ".", "g", "o">>, [PlainContent EXCEPT !.tags = <<<<"!", "d", "a", "r", "w", "i", "n">>>>,
                                               !.imports = <<<<"a", "b">>>>]),
     MakeFileInfo(<<"f", ".", "g", "o">>, [PlainContent EXCEPT !.tags = <<<<"f", "o", "o", " ", "l", "i", "n", "u", "x">>>>]),
     MakeFileInfo(<<"a", "_", "t", "e", "s", "t", ".", "g", "o">>, [PlainContent EXCEPT !.imports = <<<<"b">>>>]),
     MakeFileInfo(<<"x", "_", "t", "e", "s", "t", ".", "g", "o">>, [PlainContent EXCEPT !.xtest = TRUE]),
     MakeFileInfo(<<"c", "_", "t", "e", "s", "t", ".", "g", "o">>, [PlainContent EXCEPT !.cgo = TRUE]),
     MakeFileInfo(<<"y", "_", "t", "e", "s", "t", ".", "g", "o">>, [PlainContent EXCEPT !.xtest = TRUE, !.cgo = TRUE]),
     MakeFileInfo(<<"a", ".", "c">>, PlainContent),
     MakeFileInfo(<<"a", ".", "h">>, PlainContent),
     MakeFileInfo(<<"a", ".", "s">>, PlainContent),
     MakeFileInfo(<<"a", ".", "S">>, PlainContent),
     MakeFileInfo(<<"a", ".", "p", "r", "o", "t", "o">>, PlainContent),
     MakeFileInfo(<<"b", ".", "p", "r", "o", "t", "o">>, PlainContent),
     MakeFileInfo(<<"a", ".", "t", "x", "t">>, PlainContent),
     MakeFileInfo(<<"a", ".", "m">>, PlainContent)}

(***************************************************************************)
(* The values the model draws strings and lists from.                      *)
(***************************************************************************)
\* "ab" < "b": the order is by bytes, not by length.
Strs == {<<"a", "b">>, <<"b">>}

SeqsUpTo(S, k) == UNION {[1..i -> S] : i \in 0..k}

Lists == SeqsUpTo(Strs, MaxLen)

Maps ==
    {NilMap} \cup
    UNION {{[isNil |-> FALSE, m |-> f] : f \in [D -> Lists]} :
               D \in SUBSET PlatformNames}

AllPS == [Generic : Lists, Platform : Maps]

\* The arguments of one add* call.
ArgLists == SeqsUpTo(Strs, MaxArgs)
TaggedOpts == [tags : {<<>>, <<"l", "i", "n", "u", "x">>}, opts : Strs]
ArgOpts == SeqsUpTo(TaggedOpts, MaxArgs)

WithinBounds(p) ==
    /\ Len(p.Generic) <= MaxLen
    /\ \A k \in DOMAIN p.Platform.m : Len(p.Platform.m[k]) <= MaxLen

(***************************************************************************)
(* A PlatformStrings filled by add* calls in any order, then cleaned up to *)
(* MaxCleans times.  Any value within the bounds may already be there.     *)
(***************************************************************************)
NoResult == [done |-> FALSE]

IdleMap == mapIn = ZeroPS /\ mapF = <<>> /\ mapRes = NoResult

IdleNames == nameIn = <<>> /\ fileName = <<>> /\ nameInfo = [called |-> FALSE]

IdleValue ==
    valIn = ZeroPS /\ valCall = [kind |-> "idle"] /\ valOut = [type |-> "none"]

IdleTags == tagLine = <<>> /\ satisfied = {} /\ verdict = "idle"

IdlePkg ==
    /\ pkg = ZeroPackage /\ pkgCgo = FALSE /\ cfg = DefaultConfig
    /\ added = <<>> /\ last = [called |-> FALSE] /\ phase = "idle"

InitPS ==
    /\ IdlePkg
    /\ IdleMap
    /\ IdleTags
    /\ IdleNames
    /\ IdleValue
    /\ ps \in AllPS
    /\ pre = ps
    /\ once = ps
    /\ n = 0

Filled(q) ==
    /\ n = 0
    /\ WithinBounds(q)
    /\ ps' = q
    /\ pre' = q
    /\ once' = q
    /\ n' = n
    /\ UNCHANGED <<pkgVars, mapVars, tagVars, nameVars, valVars>>

AddGenericStrings == \E ss \in ArgLists : Filled(addGenericStrings(ps, ss))

AddPlatformStrings ==
    \E name \in PlatformNames, ss \in ArgLists :
        Filled(addPlatformStrings(ps, name, ss))

AddGenericOpts ==
    \E opts \in ArgOpts :
        Filled(addGenericOpts(ps, DefaultConfig.Platforms, opts))

AddTaggedOpts ==
    \E name \in PlatformNames, opts \in ArgOpts :
        Filled(addTaggedOpts(ps, name, opts, DefaultConfig.Platforms[name]))

DoClean ==
    /\ n < MaxCleans
    /\ ps' = Clean(ps)
    /\ pre' = IF n = 0 THEN ps ELSE pre
    /\ once' = IF n = 0 THEN Clean(ps) ELSE once
    /\ n' = n + 1
    /\ UNCHANGED <<pkgVars, mapVars, tagVars, nameVars, valVars>>

NextPS ==
    \/ AddGenericStrings
    \/ AddPlatformStrings
    \/ AddGenericOpts
    \/ AddTaggedOpts
    \/ DoClean

SpecPS == InitPS /\ [][NextPS]_vars

(***************************************************************************)
(* A Package filled by addFile calls, one per file and in any order, then  *)
(* normalized.  The configuration and the cgo flag are fixed for the       *)
(* package.                                                                *)
(***************************************************************************)
NoCall == [called |-> FALSE]

IdlePS == ps = ZeroPS /\ pre = ZeroPS /\ once = ZeroPS /\ n = 0

Init ==
    /\ pkg = ZeroPackage
    /\ pkgCgo \in BOOLEAN
    /\ cfg \in Configs
    /\ added = <<>>
    /\ last = NoCall
    /\ phase = "adding"
    /\ IdlePS
    /\ IdleMap
    /\ IdleTags
    /\ IdleNames
    /\ IdleValue

AddFile ==
    \E info \in Files :
        /\ phase = "adding"
        /\ Len(added) < MaxFiles
        /\ pkg' = PackageAddFile(pkg, cfg, info, pkgCgo).pkg
        /\ last' = [called |-> TRUE, info |-> info, before |-> pkg,
                    err |-> PackageAddFile(pkg, cfg, info, pkgCgo).err]
        /\ added' = Append(added, info)
        /\ UNCHANGED <<pkgCgo, cfg, phase, psVars, mapVars, tagVars, nameVars, valVars>>

Normalize ==
    /\ phase = "adding"
    /\ pkg' = CleanPackage(pkg)
    /\ phase' = "clean"
    /\ UNCHANGED <<pkgCgo, cfg, added, last, psVars, mapVars, tagVars, nameVars, valVars>>

Next == AddFile \/ Normalize

Spec == Init /\ [][Next]_vars

(***************************************************************************)
(* Map applied once to an arbitrary PlatformStrings with a transform that  *)
(* fails on some strings.                                                  *)
(***************************************************************************)
\* An import path becomes a label.
Label(s) == <<":">> \o s

Transforms ==
    {[s \in Strs |-> IF s \in failing THEN [ok |-> FALSE, r |-> <<>>]
                     ELSE [ok |-> TRUE, r |-> Label(s)]] :
        failing \in SUBSET Strs}

IterationOrders(keys) ==
    {o \in [1..Cardinality(keys) -> keys] :
        \A i, j \in 1..Cardinality(keys) : o[i] = o[j] => i = j}

InitMap ==
    /\ mapIn \in AllPS
    /\ mapF \in Transforms
    /\ mapRes = NoResult
    /\ IdlePS
    /\ IdlePkg
    /\ IdleTags
    /\ IdleNames
    /\ IdleValue

DoMap ==
    /\ ~mapRes.done
    /\ \E order \in IterationOrders(DOMAIN mapIn.Platform.m) :
           mapRes' = [done |-> TRUE,
                      result |-> Map(mapIn, mapF, order).result,
                      errors |-> Map(mapIn, mapF, order).errors]
    /\ UNCHANGED <<mapIn, mapF, psVars, pkgVars, tagVars, nameVars, valVars>>

NextMap == DoMap

SpecMap == InitMap /\ [][NextMap]_vars

(***************************************************************************)
(* checkTags applied once to a tag line and a set of satisfied tags.       *)
(***************************************************************************)
\* A line is a run of these pieces: separators, the negation sign, two tag
\* names and a release tag.
LinePieces == {<<" ">>, <<",">>, <<"!">>, <<"y", "e", "s">>, <<"n", "o">>, <<"g", "o", "1", ".", "8">>}

RECURSIVE Flatten(_)
Flatten(pieces) ==
    IF pieces = <<>> THEN <<>> ELSE Head(pieces) \o Flatten(Tail(pieces))

Lines == {Flatten(pieces) : pieces \in SeqsUpTo(LinePieces, MaxLinePieces)}

TagSets == SUBSET {<<"y", "e", "s">>, <<"n", "o">>}

InitTags ==
    /\ tagLine \in Lines
    /\ satisfied \in TagSets
    /\ verdict = "none"
    /\ IdlePS
    /\ IdlePkg
    /\ IdleMap
    /\ IdleNames
    /\ IdleValue

CheckTags ==
    /\ verdict = "none"
    /\ verdict' = IF checkTags(tagLine, satisfied) THEN "true" ELSE "false"
    /\ UNCHANGED <<tagLine, satisfied, psVars, pkgVars, mapVars, nameVars, valVars>>

NextTags == CheckTags

SpecTags == InitTags /\ [][NextTags]_vars

(***************************************************************************)
(* fileNameInfo applied once to a file name made of tokens joined by "_"   *)
(* and an extension.                                                       *)
(***************************************************************************)
NameTokens == {<<>>, <<"f", "o", "o">>, <<"t", "e", "s", "t">>, <<"l", "i", "n", "u", "x">>, <<"a", "m", "d", "6", "4">>}

NameExts == {<<".", "g", "o">>, <<".", "c", "x", "x">>, <<".", "p", "y">>, <<".", "s">>}

RECURSIVE Join(_, _)
Join(tokens, sep) ==
    IF Len(tokens) = 1 THEN Head(tokens)
    ELSE Head(tokens) \o <<sep>> \o Join(Tail(tokens), sep)

NoInfo == [called |-> FALSE]

InitNames ==
    /\ nameIn \in [tokens : SeqsUpTo(NameTokens, MaxNameTokens) \ {<<>>},
                   ext : NameExts]
    /\ fileName = Join(nameIn.tokens, "_") \o nameIn.ext
    /\ nameInfo = NoInfo
    /\ IdlePS
    /\ IdlePkg
    /\ IdleMap
    /\ IdleTags
    /\ IdleValue

FileNameInfo ==
    /\ ~nameInfo.called
    /\ nameInfo' = [called |-> TRUE, info |-> fileNameInfo(fileName)]
    /\ UNCHANGED <<nameIn, fileName, psVars, pkgVars, mapVars, tagVars, valVars>>

NextNames == FileNameInfo

SpecNames == InitNames /\ [][NextNames]_vars

(***************************************************************************)
(* newValue applied once to a map or to a PlatformStrings whose map is     *)
(* keyed by platform names given as strings.                               *)
(***************************************************************************)
ValKeys == {<<"l", "i", "n", "u", "x">>, <<"d", "a", "r", "w", "i", "n">>, <<"w", "i", "n", "d", "o", "w", "s">>}

ValLists == SeqsUpTo(Strs, MaxValLen)

ValMaps ==
    {NilMap} \cup
    {[isNil |-> FALSE, m |-> m] :
        m \in UNION {[keys -> ValLists] : keys \in SUBSET ValKeys}}

ValPS == [Generic : ValLists, Platform : ValMaps]

NoExpr == [type |-> "none"]

InitValue ==
    /\ valIn \in ValPS
    /\ valCall = [kind |-> "none"]
    /\ valOut = NoExpr
    /\ IdlePS
    /\ IdlePkg
    /\ IdleMap
    /\ IdleTags
    /\ IdleNames

\* newValue(val) for a PlatformStrings val.
NewValueOfPlatformStrings ==
    /\ valCall.kind = "none"
    /\ \E rkeys \in IterationOrders(DOMAIN valIn.Platform.m) :
           /\ valCall' = [kind |-> "PlatformStrings", rkeys |-> rkeys]
           /\ valOut' = newValue([kind |-> "PlatformStrings", v |-> valIn], rkeys)
    /\ UNCHANGED <<valIn, psVars, pkgVars, mapVars, tagVars, nameVars>>

\* newValue(val.Platform): the call on the map itself.
NewValueOfMap ==
    /\ valCall.kind = "none"
    /\ \E rkeys \in IterationOrders(DOMAIN valIn.Platform.m) :
           /\ valCall' = [kind |-> "Map", rkeys |-> rkeys]
           /\ valOut' = newValue([kind |-> "Map", v |-> valIn.Platform], rkeys)
    /\ UNCHANGED <<valIn, psVars, pkgVars, mapVars, tagVars, nameVars>>

NextValue == NewValueOfPlatformStrings \/ NewValueOfMap

SpecValue == InitValue /\ [][NextValue]_vars

(***************************************************************************)
(* Properties of Clean.                                                    *)
(***************************************************************************)
\* s[1] < s[2] < ... : sorted ascending and free of duplicates.
StrictlySorted(ss) == \A i \in 1..(Len(ss) - 1) : StrLess(ss[i], ss[i + 1])

HasDuplicate(ss) == \E i, j \in DOMAIN ss : i # j /\ ss[i] = ss[j]

\* C1: Clean is idempotent: a second Clean leaves the Generic list and the
\* Platform map exactly as the first Clean left them.
C1_CleanIdempotent == n >= 2 => ps = once

\* Clean has run twice on a value with a duplicate in Generic and a non-nil
\* map holding an empty entry, and the first run changed the value.
C1_Witness ==
    /\ n = 2
    /\ pre # once
    /\ HasDuplicate(pre.Generic)
    /\ ~pre.Platform.isNil
    /\ \E k \in DOMAIN pre.Platform.m : pre.Platform.m[k] = <<>>

\* C2: after Clean, Generic is sorted and duplicate-free; every remaining
\* per-platform list is sorted, duplicate-free, non-empty and disjoint from
\* Generic; and a Platform map without entries is nil.
C2_CleanPostcondition ==
    n >= 1 =>
        /\ StrictlySorted(ps.Generic)
        /\ \A k \in DOMAIN ps.Platform.m :
               /\ StrictlySorted(ps.Platform.m[k])
               /\ ps.Platform.m[k] # <<>>
               /\ Range(ps.Platform.m[k]) \cap Range(ps.Generic) = {}
        /\ (DOMAIN ps.Platform.m = {} => ps.Platform.isNil)

\* Clean has run on a value where one entry held only Generic values (and is
\* pruned) and another held an unsorted list with a value of its own.
C2_Witness ==
    /\ n = 1
    /\ \E k \in DOMAIN pre.Platform.m :
           /\ pre.Platform.m[k] # <<>>
           /\ Range(pre.Platform.m[k]) \subseteq Range(pre.Generic)
           /\ k \notin DOMAIN ps.Platform.m
    /\ \E k \in DOMAIN pre.Platform.m :
           /\ ~StrictlySorted(pre.Platform.m[k])
           /\ k \in DOMAIN ps.Platform.m

\* An emptied map became nil.
C2_WitnessNil ==
    /\ n = 1
    /\ ~pre.Platform.isNil
    /\ DOMAIN pre.Platform.m # {}
    /\ ps.Platform.isNil

(***************************************************************************)
(* Order independence of Clean.                                            *)
(***************************************************************************)
\* The PlatformStrings that holds the same strings as p, each as often as in
\* p, appended in ascending order: Generic by one addGenericStrings call and
\* every platform that has strings by one addPlatformStrings call.
RECURSIVE AddPlatformsAscending(_, _, _)
AddPlatformsAscending(q, p, names) ==
    IF names = {} THEN q
    ELSE LET name == CHOOSE x \in names : TRUE
         IN  AddPlatformsAscending(
                 addPlatformStrings(q, name, SortStrings(p.Platform.m[name])),
                 p, names \ {name})

AscendingOrder(p) ==
    AddPlatformsAscending(
        addGenericStrings(ZeroPS, SortStrings(p.Generic)), p,
        {k \in DOMAIN p.Platform.m : p.Platform.m[k] # <<>>})

\* C4: the result of Clean does not depend on the order in which the strings
\* were appended: it is the result Clean gives when the same strings, each
\* as often, were appended in ascending order.
C4_CleanOrderIndependent == n >= 1 => once = Clean(AscendingOrder(pre))

\* Clean has run on a value whose two per-platform lists held the same strings
\* in different orders, one of them filled out of order, and both are kept.
C4_Witness ==
    /\ n = 1
    /\ pre # AscendingOrder(pre)
    /\ \E k1, k2 \in DOMAIN pre.Platform.m :
           /\ pre.Platform.m[k1] # pre.Platform.m[k2]
           /\ SortStrings(pre.Platform.m[k1]) = SortStrings(pre.Platform.m[k2])
           /\ ~StrictlySorted(pre.Platform.m[k1])
           /\ HasDuplicate(pre.Platform.m[k1])
           /\ k1 \in DOMAIN ps.Platform.m
           /\ ps.Platform.m[k1] = ps.Platform.m[k2]

(***************************************************************************)
(* Properties of Package.addFile and Target.addFile.                       *)
(***************************************************************************)
RECURSIVE AddAll(_, _, _, _)
\* addFile called once per file of the list, in list order; a file that
\* makes addFile return an error leaves the Package as it was.
AddAll(p, config, files, cgoFlag) ==
    IF files = <<>> THEN p
    ELSE AddAll(PackageAddFile(p, config, Head(files), cgoFlag).pkg, config,
                Tail(files), cgoFlag)

\* Every order of the files of a list.
Orders(files) ==
    {[i \in DOMAIN files |-> files[perm[i]]] :
        perm \in {f \in [DOMAIN files -> DOMAIN files] :
                     \A i, j \in DOMAIN files : f[i] = f[j] => i = j}}

Normalized(files) == CleanPackage(AddAll(ZeroPackage, cfg, files, pkgCgo))

\* The names of the protocol definitions of a list of files, in list order.
ProtoNames(files) ==
    LET protos == SelectSeq(files, LAMBDA f : f.category = "protoExt")
    IN  [i \in DOMAIN protos |-> protos[i].name]

Count(ss, s) == Cardinality({i \in DOMAIN ss : ss[i] = s})

SameTargets(p, q) == \A t \in TargetNames : p[t] = q[t]

\* The original C3: the normalized Package, Protos included, is the same for
\* every order of the files.
C3_Original ==
    phase = "clean" => \A files \in Orders(added) : pkg = Normalized(files)

\* C3 (amended): the normalized Package has the same five targets and the
\* same HasPbGo for every order of the files, and its Protos list holds the
\* same names, each as often, in the order the files were added.
C3_OrderIndependentTargets ==
    phase = "clean" =>
        \A files \in Orders(added) :
            /\ SameTargets(pkg, Normalized(files))
            /\ pkg.HasPbGo = Normalized(files).HasPbGo
            /\ \A i \in DOMAIN added :
                   Count(pkg.Protos, added[i].name)
                       = Count(Normalized(files).Protos, added[i].name)
            /\ pkg.Protos = ProtoNames(added)

\* Two files with different imports were added to the library in descending
\* order of their imports and the Package was normalized.
C3_Witness ==
    /\ phase = "clean"
    /\ Len(added) = 2
    /\ added[1].name # added[2].name
    /\ added[1].imports # <<>> /\ added[2].imports # <<>>
    /\ {added[1].name, added[2].name} \subseteq Range(pkg.Library.Sources.Generic)
    /\ StrLess(added[2].name, added[1].name)
    /\ pkg.HasPbGo

\* The destination the routing rule gives a file: a target, "Protos" or "none".
Destination(info, cgoFlag) ==
    IF info.category \in {"ignoredExt", "unsupportedExt"} THEN "none"
    ELSE IF info.isXTest THEN "XTest"
    ELSE IF info.isTest THEN "Test"
    ELSE IF info.isCgo \/ (cgoFlag /\ info.category \in {"cExt", "hExt", "csExt"})
    THEN "CgoLibrary"
    ELSE IF info.category \in {"goExt", "sExt", "hExt"} THEN "Library"
    ELSE IF info.category = "protoExt" THEN "Protos"
    ELSE "none"

\* The last step was an addFile call that handed the file to a target.
AddedToTarget ==
    /\ phase = "adding"
    /\ last.called
    /\ last.err.isNil
    /\ Destination(last.info, pkgCgo) \in TargetNames

PassingPlatforms(info) ==
    {name \in PlatformNames : checkConstraints(info, cfg.Platforms[name])}

\* The file's name and imports were appended to the generic lists of the
\* target and to no per-platform list.
WentToGeneric(before, after, info) ==
    /\ after.Sources.Generic = Append(before.Sources.Generic, info.name)
    /\ after.Imports.Generic = before.Imports.Generic \o info.imports
    /\ after.Sources.Platform = before.Sources.Platform
    /\ after.Imports.Platform = before.Imports.Platform

\* The file's name and imports were appended to the lists of exactly the
\* platforms whose tags pass checkConstraints, and to no generic list.
WentToPlatforms(before, after, info) ==
    /\ after.Sources.Generic = before.Sources.Generic
    /\ after.Imports.Generic = before.Imports.Generic
    /\ \A name \in PlatformNames :
           IF name \in PassingPlatforms(info)
           THEN /\ Lookup(after.Sources.Platform, name)
                       = Append(Lookup(before.Sources.Platform, name), info.name)
                /\ Lookup(after.Imports.Platform, name)
                       = Lookup(before.Imports.Platform, name) \o info.imports
           ELSE /\ Lookup(after.Sources.Platform, name)
                       = Lookup(before.Sources.Platform, name)
                /\ Lookup(after.Imports.Platform, name)
                       = Lookup(before.Imports.Platform, name)

\* The original C5: a file without goos, goarch and tag lines goes to the
\* generic lists, and every file with a constraint goes to the lists of the
\* passing platforms and never to the generic lists.
C5_Original ==
    AddedToTarget =>
        LET t == Destination(last.info, pkgCgo)
        IN  IF ~hasConstraints(last.info)
            THEN WentToGeneric(last.before[t], pkg[t], last.info)
            ELSE WentToPlatforms(last.before[t], pkg[t], last.info)

\* C5 (amended): a file without constraints, or whose constraints the
\* configuration's generic tags satisfy, goes to the generic lists; any other
\* file goes to the lists of exactly the passing platforms and never to the
\* generic lists.
C5_TargetAccumulation ==
    AddedToTarget =>
        LET t == Destination(last.info, pkgCgo)
        IN  IF ~hasConstraints(last.info)
               \/ checkConstraints(last.info, cfg.GenericTags)
            THEN WentToGeneric(last.before[t], pkg[t], last.info)
            ELSE WentToPlatforms(last.before[t], pkg[t], last.info)

\* A constrained file that only one platform passes was added after another
\* file: its name is in that platform's list alone.
C5_Witness ==
    /\ AddedToTarget
    /\ Len(added) = 2
    /\ hasConstraints(last.info)
    /\ ~checkConstraints(last.info, cfg.GenericTags)
    /\ PassingPlatforms(last.info) = {"linux_amd64"}
    /\ last.info.imports # <<>>
    /\ LET t == Destination(last.info, pkgCgo)
       IN  /\ last.info.name \in Range(Lookup(pkg[t].Sources.Platform, "linux_amd64"))
           /\ "darwin_amd64" \notin DOMAIN pkg[t].Sources.Platform.m
           /\ last.info.name \notin Range(pkg[t].Sources.Generic)
           /\ pkg[t].Sources.Generic # <<>>

\* A constrained file that the generic tags satisfy went to the generic lists.
C5_WitnessGenericTags ==
    /\ AddedToTarget
    /\ hasConstraints(last.info)
    /\ checkConstraints(last.info, cfg.GenericTags)
    /\ last.info.name \in Range(pkg[Destination(last.info, pkgCgo)].Sources.Generic)

\* The last step was an addFile call.
Called == phase = "adding" /\ last.called

\* C6: addFile routes a file by the fixed priority to at most one
\* destination; the chosen target receives the file by Target.addFile (a
\* protocol definition is appended to Protos) and every other target, Binary
\* included, and Protos are left as they were.
C6_RoutingPriority ==
    Called =>
        LET d == Destination(last.info, pkgCgo)
        IN  /\ \A t \in TargetNames \ {d} : pkg[t] = last.before[t]
            /\ d # "Protos" => pkg.Protos = last.before.Protos
            /\ d = "Protos" => pkg.Protos = Append(last.before.Protos, last.info.name)
            /\ (d \in TargetNames /\ last.err.isNil) =>
                   pkg[d] = TargetAddFile(last.before[d], cfg, last.info)

\* With the cgo flag set a header went to CgoLibrary, and Library, which
\* already held a file, did not change.
C6_Witness ==
    /\ Called
    /\ pkgCgo
    /\ last.info.category = "hExt"
    /\ ~last.info.isCgo
    /\ last.info.name \in Range(pkg.CgoLibrary.Sources.Generic)
    /\ pkg.Library.Sources.Generic # <<>>
    /\ pkg.Library = last.before.Library

\* C7: addFile on a test or external test file that uses cgo returns the
\* error "use of cgo in test not supported" and leaves the Package exactly as
\* it was.
C7_CgoInTestRejected ==
    (Called /\ (last.info.isTest \/ last.info.isXTest) /\ last.info.isCgo) =>
        /\ ~last.err.isNil
        /\ last.err.msg = "use of cgo in test not supported"
        /\ last.err.path = last.info.path
        /\ pkg = last.before

\* A cgo test file was rejected after a test file had been added to Test.
C7_Witness ==
    /\ Called
    /\ last.info.isTest /\ ~last.info.isXTest /\ last.info.isCgo
    /\ ~last.err.isNil
    /\ Len(added) = 2
    /\ pkg.Test.Sources.Generic = <<added[1].name>>

\* A cgo external test file was rejected.
C7_WitnessXTest ==
    /\ Called
    /\ last.info.isXTest /\ last.info.isCgo
    /\ ~last.err.isNil

\* C8: an addFile call with a file whose name ends in ".pb.go" leaves HasPbGo
\* true, and no addFile call resets HasPbGo once it is true.
C8_HasPbGo ==
    Called =>
        /\ HasSuffix(last.info.name, <<".", "p", "b", ".", "g", "o">>) => pkg.HasPbGo
        /\ last.before.HasPbGo => pkg.HasPbGo

\* A ".pb.go" file that uses cgo went to CgoLibrary and set HasPbGo, which a
\* later call with another file did not reset.
C8_Witness ==
    /\ Called
    /\ Len(added) = 2
    /\ HasSuffix(added[1].name, <<".", "p", "b", ".", "g", "o">>)
    /\ added[1].isCgo
    /\ ~HasSuffix(added[2].name, <<".", "p", "b", ".", "g", "o">>)
    /\ last.before.HasPbGo
    /\ pkg.HasPbGo

\* A ".pb.go" file went to Library and set HasPbGo for the first time.
C8_WitnessLibrary ==
    /\ Called
    /\ HasSuffix(last.info.name, <<".", "p", "b", ".", "g", "o">>)
    /\ Destination(last.info, pkgCgo) = "Library"
    /\ ~last.before.HasPbGo
    /\ pkg.HasPbGo

(***************************************************************************)
(* Properties of Map.                                                      *)
(***************************************************************************)
\* The lists of a PlatformStrings by place: "" is Generic, a key its entry.
Places(p) == {"generic"} \cup DOMAIN p.Platform.m

ListAt(p, place) == IF place = "generic" THEN p.Generic ELSE p.Platform.m[place]

\* How often s occurs in the lists of p.
Occurrences(p, s) ==
    LET RECURSIVE Sum(_)
        Sum(places) ==
            IF places = {} THEN 0
            ELSE LET place == CHOOSE x \in places : TRUE
                 IN  Count(ListAt(p, place), s) + Sum(places \ {place})
    IN  Sum(Places(p))

\* One error per occurrence of a string the transform fails on, and none else.
OneErrorPerFailure ==
    /\ \A i \in DOMAIN mapRes.errors : mapRes.errors[i] \in {ErrorFor(s) : s \in Strs}
    /\ \A s \in Strs :
           Count(mapRes.errors, ErrorFor(s))
               = IF mapF[s].ok THEN 0 ELSE Occurrences(mapIn, s)

SameKeys ==
    /\ DOMAIN mapRes.result.Platform.m = DOMAIN mapIn.Platform.m
    /\ mapRes.result.Platform.isNil = mapIn.Platform.isNil

\* The position in the list of its j-th string the transform succeeds on.
GoodPosition(ss, j) ==
    CHOOSE i \in DOMAIN ss :
        /\ mapF[ss[i]].ok
        /\ Cardinality({h \in 1..i : mapF[ss[h]].ok}) = j

\* The original C9: no short circuit, one error per failed occurrence, the
\* same keys, and every list transformed position by position.
C9_Original ==
    mapRes.done =>
        /\ OneErrorPerFailure
        /\ SameKeys
        /\ \A place \in Places(mapIn) :
               LET in == ListAt(mapIn, place)
                   out == ListAt(mapRes.result, place)
               IN  /\ Len(out) = Len(in)
                   /\ \A i \in DOMAIN in : out[i] = mapF[in[i]].r

\* C9 (amended): no short circuit, one error per failed occurrence, the same
\* keys, and every list holds the transformed values of the strings of the
\* input list on which the transform succeeded, in input order; a string on
\* which it failed leaves no element.
C9_MapCollectsErrors ==
    mapRes.done =>
        /\ OneErrorPerFailure
        /\ SameKeys
        /\ \A place \in Places(mapIn) :
               LET in == ListAt(mapIn, place)
                   out == ListAt(mapRes.result, place)
               IN  /\ Len(out) = Cardinality({i \in DOMAIN in : mapF[in[i]].ok})
                   /\ \A j \in DOMAIN out :
                          out[j] = mapF[in[GoodPosition(in, j)]].r

\* Map went on after a failure in Generic and after a failure in a platform
\* list: both lists hold a value from behind the failed string.
C9_Witness ==
    /\ mapRes.done
    /\ Len(mapRes.errors) >= 3
    /\ \E place \in DOMAIN mapIn.Platform.m :
           /\ Len(mapIn.Platform.m[place]) >= 2
           /\ ~mapF[mapIn.Platform.m[place][1]].ok
           /\ mapRes.result.Platform.m[place] # <<>>
    /\ Len(mapIn.Generic) >= 2
    /\ ~mapF[mapIn.Generic[1]].ok
    /\ mapRes.result.Generic # <<>>

(***************************************************************************)
(* Properties of checkTags.                                                *)
(***************************************************************************)
\* A factor starts at the start of the line, after a space or after a comma.
\* The line has a factor that starts with two negation signs.
HasDoublyNegatedFactor(l) ==
    \E i \in 1..(Len(l) - 1) :
        /\ l[i] = "!" /\ l[i + 1] = "!"
        /\ i = 1 \/ l[i - 1] \in {" ", ","}

\* C10: checkTags is false for every line with a doubly negated factor,
\* whatever the satisfied tags and whatever the other terms of the line.
C10_DoubleNegationVeto ==
    (verdict # "none" /\ HasDoublyNegatedFactor(tagLine)) => verdict = "false"

\* checkTags was false on a line whose first term is satisfied and whose
\* second term is a doubly negated factor.
C10_Witness ==
    /\ verdict = "false"
    /\ tagLine = <<"y", "e", "s", " ", "!", "!", "n", "o">>
    /\ satisfied = {<<"y", "e", "s">>}

\* The runs <<a, b>> of the line between spaces: its OR-terms.
TermRuns(l) ==
    {<<a, CHOOSE b \in a..Len(l) :
              /\ b = Len(l) \/ l[b + 1] = " "
              /\ \A i \in a..b : l[i] # " ">> :
        a \in {i \in 1..Len(l) : l[i] # " " /\ (i = 1 \/ l[i - 1] = " ")}}

\* The runs <<c, d>> of the term l[a..b] between commas: its factors.  A
\* factor may be empty (d = c - 1).
FactorRuns(l, a, b) ==
    {<<c, CHOOSE d \in (c - 1)..b :
              /\ d = b \/ l[d + 1] = ","
              /\ \A i \in c..d : l[i] # ",">> :
        c \in {i \in a..(b + 1) : i = a \/ l[i - 1] = ","}}

\* name has the form goN.M: "go", digits, one dot, digits.
IsGoVersion(name) ==
    /\ Len(name) >= 5
    /\ name[1] = "g" /\ name[2] = "o"
    /\ \E dot \in 4..(Len(name) - 1) :
           /\ name[dot] = "."
           /\ \A i \in 3..Len(name) : i # dot => name[i] \in Digits

\* A release tag always holds; a negated factor holds iff its tag is not
\* satisfied; a plain factor holds iff it is satisfied.
FactorTrue(text, sat) ==
    LET negated == text # <<>> /\ text[1] = "!"
        name == IF negated THEN SubSeq(text, 2, Len(text)) ELSE text
    IN  \/ IsGoVersion(name)
        \/ negated /\ name \notin sat
        \/ ~negated /\ name \in sat

\* The OR over the terms of the AND over the factors.
OrOfAnds(l, sat) ==
    \E term \in TermRuns(l) :
        \A factor \in FactorRuns(l, term[1], term[2]) :
            FactorTrue(SubSeq(l, factor[1], factor[2]), sat)

\* C11: on a line without a doubly negated factor checkTags is the OR over
\* the space-separated terms of the AND over the comma-separated factors,
\* with release tags always true and the empty line false; "yes,!no" is true
\* for {yes} and false for {yes, no}, so the result is not monotone in the
\* satisfied tags.
C11_CheckTagsOrOfAnds ==
    (verdict # "none" /\ ~HasDoublyNegatedFactor(tagLine)) =>
        /\ verdict = "true" <=> OrOfAnds(tagLine, satisfied)
        /\ tagLine = <<>> => verdict = "false"
        /\ tagLine = <<"y", "e", "s", ",", "!", "n", "o">> =>
               (verdict = "true" <=> satisfied = {<<"y", "e", "s">>})

\* checkTags was false on "yes,!no" with both tags satisfied.
C11_Witness ==
    /\ verdict = "false"
    /\ tagLine = <<"y", "e", "s", ",", "!", "n", "o">>
    /\ satisfied = {<<"y", "e", "s">>, <<"n", "o">>}

\* checkTags was true on "yes,!no" with yes alone satisfied.
C11_WitnessFewerTags ==
    /\ verdict = "true"
    /\ tagLine = <<"y", "e", "s", ",", "!", "n", "o">>
    /\ satisfied = {<<"y", "e", "s">>}

\* checkTags was true on a line whose only true term is a negated release tag.
C11_WitnessReleaseTag ==
    /\ verdict = "true"
    /\ tagLine = <<"n", "o", " ", "!", "g", "o", "1", ".", "8">>
    /\ satisfied = {}

(***************************************************************************)
(* Properties of fileNameInfo.                                             *)
(***************************************************************************)
\* The tokens of the stem without an optional trailing "test".
Scanned ==
    LET t == nameIn.tokens
    IN  IF Len(t) >= 2 /\ t[Len(t)] = <<"t", "e", "s", "t">> THEN SubSeq(t, 1, Len(t) - 1)
        ELSE t

\* C12: with the extension and an optional trailing "test" token removed,
\* goarch is the last token when that is an architecture behind a separator;
\* goos is the OS token before that architecture when a further token
\* precedes it, or the last token when that is an OS behind a separator;
\* name_arch_os sets goos alone; a stem of one token sets neither.
C12_FileNameDecomposition ==
    nameInfo.called =>
        LET r == Scanned
            k == Len(r)
            goos == nameInfo.info.goos
            goarch == nameInfo.info.goarch
            lastIsArch == k >= 2 /\ r[k] \in KnownArch
            lastIsOS == k >= 2 /\ r[k] \in KnownOS
            osBeforeArch == k >= 3 /\ r[k] \in KnownArch /\ r[k - 1] \in KnownOS
        IN  /\ goarch = (IF lastIsArch THEN r[k] ELSE <<>>)
            /\ goos = (IF lastIsOS THEN r[k]
                       ELSE IF osBeforeArch THEN r[k - 1] ELSE <<>>)
            /\ (k >= 3 /\ r[k - 1] \in KnownArch /\ r[k] \in KnownOS) =>
                   goos = r[k] /\ goarch = <<>>
            /\ k = 1 => goos = <<>> /\ goarch = <<>>

\* fileNameInfo ran on foo_amd64_linux.go: only goos is set.
C12_Witness ==
    /\ nameInfo.called
    /\ fileName = <<"f", "o", "o", "_", "a", "m", "d", "6", "4", "_", "l", "i", "n", "u", "x", ".", "g", "o">>
    /\ nameInfo.info.goos = <<"l", "i", "n", "u", "x">>
    /\ nameInfo.info.goarch = <<>>

\* fileNameInfo ran on foo_linux_amd64_test.go: both fields are set.
C12_WitnessBoth ==
    /\ nameInfo.called
    /\ fileName = <<"f", "o", "o", "_", "l", "i", "n", "u", "x", "_", "a", "m", "d", "6", "4", "_", "t", "e", "s", "t", ".", "g", "o">>
    /\ nameInfo.info.goos = <<"l", "i", "n", "u", "x">>
    /\ nameInfo.info.goarch = <<"a", "m", "d", "6", "4">>

\* fileNameInfo ran on linux_test.go: neither field is set.
C12_WitnessBare ==
    /\ nameInfo.called
    /\ fileName = <<"l", "i", "n", "u", "x", "_", "t", "e", "s", "t", ".", "g", "o">>
    /\ nameInfo.info.goos = <<>>
    /\ nameInfo.info.goarch = <<>>

\* The original C13: for every extension, isTest iff the stem ends in "_test".
C13_Original ==
    nameInfo.called =>
        (nameInfo.info.isTest <=> HasSuffix(Stem(fileName), <<"_", "t", "e", "s", "t">>))

\* C13 (amended): for a name with the extension ".go", isTest iff the stem
\* ends in "_test"; for every other extension isTest is false.
C13_IsTestOfGoFiles ==
    nameInfo.called =>
        (nameInfo.info.isTest <=>
             /\ nameIn.ext = <<".", "g", "o">>
             /\ Len(nameIn.tokens) >= 2
             /\ nameIn.tokens[Len(nameIn.tokens)] = <<"t", "e", "s", "t">>)

\* fileNameInfo ran on a name with another extension whose stem ends in
\* "_test", and on it isTest is false.
C13_Witness ==
    /\ nameInfo.called
    /\ fileName = <<"f", "o", "o", "_", "t", "e", "s", "t", ".", "c", "x", "x">>
    /\ ~nameInfo.info.isTest

\* fileNameInfo ran on _test.go: isTest is true.
C13_WitnessGo ==
    /\ nameInfo.called
    /\ fileName = <<"_", "t", "e", "s", "t", ".", "g", "o">>
    /\ nameInfo.info.isTest

(***************************************************************************)
(* Properties of newValue.                                                 *)
(***************************************************************************)
\* The entries of the dictionary of a select(...) call.
SelectEntries(expr) == expr.List[1].List

IsSelect(expr) ==
    /\ expr.type = "CallExpr"
    /\ expr.X = [type |-> "LiteralExpr", Token |-> <<"s", "e", "l", "e", "c", "t">>]
    /\ Len(expr.List) = 1
    /\ expr.List[1].type = "DictExpr"

\* The strings an expression list of string literals holds.
StringsOf(list) == [i \in DOMAIN list |-> list[i].Value]

\* C14: newValue on a map is a select(...) call whose dictionary has one
\* entry per key of the map, in ascending order of the keys, each with the
\* list of the key, and then one last entry "//conditions:default" with an
\* empty list; the expression is the same for every order in which the keys
\* of the map are iterated.
C14_SelectSortedKeys ==
    valCall.kind = "Map" =>
        LET m == valIn.Platform.m
            k == Cardinality(DOMAIN m)
            entries == SelectEntries(valOut)
        IN  /\ IsSelect(valOut)
            /\ Len(entries) = k + 1
            /\ \A i \in 1..k :
                   /\ entries[i].Key.Value \in DOMAIN m
                   /\ entries[i].Value.type = "ListExpr"
                   /\ StringsOf(entries[i].Value.List) = m[entries[i].Key.Value]
            /\ \A i, j \in 1..k :
                   i < j => StrLess(entries[i].Key.Value, entries[j].Key.Value)
            /\ entries[k + 1].Key = [type |-> "StringExpr", Value |-> <<"/", "/", "c", "o", "n", "d", "i", "t", "i", "o", "n", "s", ":", "d", "e", "f", "a", "u", "l", "t">>]
            /\ entries[k + 1].Value.type = "ListExpr"
            /\ entries[k + 1].Value.List = <<>>
            /\ \A rkeys \in IterationOrders(DOMAIN m) :
                   newValue([kind |-> "Map", v |-> valIn.Platform], rkeys) = valOut

\* newValue ran on a map of three keys that came out of the map in
\* descending order.
C14_Witness ==
    /\ valCall.kind = "Map"
    /\ valCall.rkeys = <<<<"w", "i", "n", "d", "o", "w", "s">>, <<"l", "i", "n", "u", "x">>, <<"d", "a", "r", "w", "i", "n">>>>
    /\ Len(SelectEntries(valOut)) = 4
    /\ SelectEntries(valOut)[1].Key.Value = <<"d", "a", "r", "w", "i", "n">>

\* newValue ran on a nil map: the dictionary holds the default entry alone.
C14_WitnessNil ==
    /\ valCall.kind = "Map"
    /\ valIn.Platform.isNil
    /\ Len(SelectEntries(valOut)) = 1

\* C15: newValue on a PlatformStrings is the list of Generic alone when
\* Platform has no entries, the select(...) call alone when Platform has
\* entries and Generic is empty, and otherwise the binary expression with
\* the operator "+", the list of Generic, forced multi-line, on the left and
\* the select(...) call on the right.
C15_PlatformStringsShape ==
    valCall.kind = "PlatformStrings" =>
        LET noEntries == DOMAIN valIn.Platform.m = {}
            noGeneric == valIn.Generic = <<>>
        IN  /\ noEntries =>
                   /\ valOut.type = "ListExpr"
                   /\ StringsOf(valOut.List) = valIn.Generic
            /\ (~noEntries /\ noGeneric) =>
                   /\ IsSelect(valOut)
                   /\ Len(SelectEntries(valOut))
                          = Cardinality(DOMAIN valIn.Platform.m) + 1
            /\ (~noEntries /\ ~noGeneric) =>
                   /\ valOut.type = "BinaryExpr"
                   /\ valOut.Op = "+"
                   /\ valOut.X.type = "ListExpr"
                   /\ valOut.X.ForceMultiLine
                   /\ StringsOf(valOut.X.List) = valIn.Generic
                   /\ IsSelect(valOut.Y)
                   /\ Len(SelectEntries(valOut.Y))
                          = Cardinality(DOMAIN valIn.Platform.m) + 1

\* newValue ran on a PlatformStrings with strings in Generic and in a
\* per-platform list.
C15_Witness ==
    /\ valCall.kind = "PlatformStrings"
    /\ valIn.Generic # <<>>
    /\ \E key \in DOMAIN valIn.Platform.m : valIn.Platform.m[key] # <<>>
    /\ valOut.type = "BinaryExpr"

\* newValue ran on a PlatformStrings with an empty Generic and an entry.
C15_WitnessSelect ==
    /\ valCall.kind = "PlatformStrings"
    /\ valIn.Generic = <<>>
    /\ DOMAIN valIn.Platform.m # {}
    /\ valOut.type = "CallExpr"

\* newValue ran on a PlatformStrings with a non-nil map without entries.
C15_WitnessList ==
    /\ valCall.kind = "PlatformStrings"
    /\ valIn.Generic # <<>>
    /\ ~valIn.Platform.isNil
    /\ DOMAIN valIn.Platform.m = {}
    /\ valOut.type = "ListExpr"

(***************************************************************************)
(* Properties of the options of a file without constraints.                *)
(***************************************************************************)
\* The option strings of the flags that have no tag expression.
UntaggedOpts(opts) ==
    LET plain == SelectSeq(opts, LAMBDA t : t.tags = <<>>)
    IN  [i \in DOMAIN plain |-> plain[i].opts]

\* The option strings of the flags whose tag expression holds on a platform.
OptsFor(opts, name) ==
    LET passing == SelectSeq(opts, LAMBDA t : /\ t.tags # <<>>
                                              /\ checkTags(t.tags, cfg.Platforms[name]))
    IN  [i \in DOMAIN passing |-> passing[i].opts]

\* The untagged flags were appended to Generic and nothing else was; each
\* platform got the tagged flags that hold on it and nothing else.
FlagsAdded(before, after, opts) ==
    /\ after.Generic = before.Generic \o UntaggedOpts(opts)
    /\ \A name \in PlatformNames :
           Lookup(after.Platform, name)
               = Lookup(before.Platform, name) \o OptsFor(opts, name)

\* C16: when addFile hands a file without goos, goarch and tag lines to a
\* target, a flag with a tag expression is not added to Generic and is added
\* to the list of exactly the platforms whose tags satisfy the expression,
\* and a flag without a tag expression is added to Generic alone.
C16_TaggedOptsPerPlatform ==
    (AddedToTarget /\ ~hasConstraints(last.info)) =>
        LET before == last.before[Destination(last.info, pkgCgo)]
            after == pkg[Destination(last.info, pkgCgo)]
        IN  /\ FlagsAdded(before.COpts, after.COpts, last.info.copts)
            /\ FlagsAdded(before.CLinkOpts, after.CLinkOpts, last.info.clinkopts)

\* addFile handed a file without constraints to a target: its untagged
\* compiler flag went to Generic, its flag tagged "linux" to linux_amd64
\* alone and its linker flag tagged "!linux" to darwin_amd64 alone.
C16_Witness ==
    /\ AddedToTarget
    /\ ~hasConstraints(last.info)
    /\ Len(added) = 1
    /\ \E i \in DOMAIN last.info.copts : last.info.copts[i].tags = <<"l", "i", "n", "u", "x">>
    /\ \E i \in DOMAIN last.info.copts : last.info.copts[i].tags = <<>>
    /\ pkg.CgoLibrary.COpts.Generic = <<<<"-", "O">>>>
    /\ DOMAIN pkg.CgoLibrary.COpts.Platform.m = {"linux_amd64"}
    /\ pkg.CgoLibrary.COpts.Platform.m["linux_amd64"] = <<<<"-", "L">>>>
    /\ DOMAIN pkg.CgoLibrary.CLinkOpts.Platform.m = {"darwin_amd64"}

(***************************************************************************)
(* Clean and the values in effect on a platform.                           *)
(***************************************************************************)
\* The strings in effect on a platform: those of Generic and of its entry.
Effective(p, name) == Range(p.Generic) \cup Range(Lookup(p.Platform, name))

\* Every string of a PlatformStrings.
AllStrings(p) ==
    Range(p.Generic) \cup UNION {Range(p.Platform.m[k]) : k \in DOMAIN p.Platform.m}

\* C17: Clean leaves the set of strings in effect on every platform that had
\* an entry as it was, a pruned entry counting as empty; it leaves the set of
\* strings of Generic as it was, adds no string and loses none.
C17_CleanKeepsEffectiveSets ==
    n >= 1 =>
        /\ \A name \in DOMAIN pre.Platform.m :
               Effective(once, name) = Effective(pre, name)
        /\ Range(once.Generic) = Range(pre.Generic)
        /\ AllStrings(once) = AllStrings(pre)
        /\ DOMAIN once.Platform.m \subseteq DOMAIN pre.Platform.m

\* Clean ran on a value where it pruned one entry whose strings were all in
\* Generic and took a string of Generic out of another entry that it kept.
C17_Witness ==
    /\ n >= 1
    /\ \E gone \in DOMAIN pre.Platform.m \ DOMAIN once.Platform.m :
           pre.Platform.m[gone] # <<>>
    /\ \E kept \in DOMAIN once.Platform.m :
           Range(once.Platform.m[kept]) # Range(pre.Platform.m[kept])

====
